---------------------------- MODULE Spec2Model ----------------------------
(***************************************************************************)
(* Model of gdal2mbtiles/vips.py: the geometry of VImage (stretch, shrink, *)
(* tms_align), the tile slicer TmsTiles.slice / _slice, the deduplicating  *)
(* TmsTile.render with its seen map and the process pool, and the pyramid  *)
(* driver image_pyramid.                                                   *)
(*                                                                         *)
(* An image is its pixel size W x H and, per whole tile cell, the raw      *)
(* pixel buffer that extract_area(...).tobuffer() gives for that cell      *)
(* (a value of Buffers: two cells hold the same value exactly when their   *)
(* pixel bytes are equal).  The file system is the set of entries below    *)
(* outputdir: regular PNG files and symbolic links.                        *)
(***************************************************************************)
EXTENDS Integers, Sequences, FiniteSets, TLC

(***************************************************************************)
(* Bounds of the model.                                                    *)
(***************************************************************************)
\* raw pixel buffers are 0..MaxBuffer
MaxBuffer == 2
\* pixel width and height of an image handed to TmsTiles directly
MaxSide == 4
\* tile_width and tile_height handed to TmsTiles directly are 2..MaxTileSide
MaxTileSide == 3
\* TMS offsets of the input are 0..MaxOffset
MaxOffset == 1
\* native resolution of the dataset is 0..MaxNative
MaxNative == 2
\* min_resolution and max_resolution are None or 0..MaxResolution
MaxResolution == 3
\* images of at most MaxFreeCells tiles take every content, larger ones
\* take the contents of Patterns
MaxFreeCells == 4
\* width and height of an image handed to stretch, shrink or tms_align
\* directly are 1..MaxPixels
MaxPixels == 5
\* tile_width and tile_height handed to tms_align directly are 1..MaxAlignTile
MaxAlignTile == 4
\* scales handed to stretch and shrink directly are n / d with n in
\* -1..MaxScale and d in 1..2
MaxScale == 3
\* offsets handed to tms_align directly are n / d with n in 0..MaxOffsetNum
\* and d in 1..2
MaxOffsetNum == 3
\* a level handed to downsample or upsample directly has 1..MaxLevelTiles
\* tile columns and rows, an offset in 0..MaxLevelOffset, a resolution in
\* 0..MaxLevel and tiles of 2 * (1..MaxHalfTile) pixels
MaxLevelTiles == 3
MaxLevelOffset == 3
MaxLevel == 2
MaxHalfTile == 2

(***************************************************************************)
(* Program constants.                                                      *)
(***************************************************************************)
\* constants.TILE_SIDE, the tile side image_pyramid and image_slice use
TILE_SIDE == 256
\* Python's None for an optional resolution (resolutions are >= 0)
None == -1

Buffers == 0..MaxBuffer

(***************************************************************************)
(* Arithmetic of Python 2 with "from __future__ import division".          *)
(***************************************************************************)
\* int(a / b) for b > 0: true division, then truncation towards zero
IntDiv(a, b) == IF a >= 0 THEN a \div b ELSE -((-a) \div b)

\* ceil(a / b) for b > 0
Ceil(a, b) == -((-a) \div b)

\* int(round(a / b)) for b > 0: Python 2 rounds halves away from zero
Round(a, b) == IF a >= 0 THEN (2 * a + b) \div (2 * b)
                         ELSE -((2 * (-a) + b) \div (2 * b))

RECURSIVE Digits(_, _)
\* the digits of n >= 0 in the given base, most significant first:
\* '{key:x}'.format(...) for base 16, str(n) for base 10
Digits(n, base) == IF n < base THEN <<n>>
                   ELSE Append(Digits(n \div base, base), n % base)

(***************************************************************************)
(* Paths are sequences of components; every component is a tuple.          *)
(***************************************************************************)
OutputDir == << <<"outputdir">> >>
ParentDir == <<"..">>

\* str(resolution), the name of a level's subdirectory
DirName(resolution) == <<"dir", Digits(resolution, 10)>>

\* '{offset.x}-{offset.y}-{key:x}.png'
FileName(offset, key) == <<"png", offset.x, offset.y, Digits(key, 16)>>

\* os.path.dirname
Dirname(path) == SubSeq(path, 1, Len(path) - 1)

RECURSIVE CommonPrefix(_, _)
\* length of the longest common prefix of two paths
CommonPrefix(p, q) ==
    IF p = <<>> \/ q = <<>> \/ Head(p) # Head(q) THEN 0
    ELSE 1 + CommonPrefix(Tail(p), Tail(q))

\* os.path.relpath(path, start=start) for two absolute, normalised paths
RelPath(path, start) ==
    LET i == CommonPrefix(path, start)
    IN  [k \in 1..(Len(start) - i) |-> ParentDir]
            \o SubSeq(path, i + 1, Len(path))

RECURSIVE Normalize(_, _)
\* the path reached from directory dir by following the relative path rel;
\* a ".." above the root yields <<>>
Normalize(dir, rel) ==
    IF rel = <<>> THEN dir
    ELSE IF Head(rel) = ParentDir
         THEN IF dir = <<>> THEN <<>>
              ELSE Normalize(Dirname(dir), Tail(rel))
         ELSE Normalize(Append(dir, Head(rel)), Tail(rel))

(***************************************************************************)
(* The file system below outputdir: a set of entries, one per path.        *)
(***************************************************************************)
NoData == None

FileEntry(path, data) ==
    [path |-> path, kind |-> "file", target |-> <<>>, data |-> data]

LinkEntry(path, target) ==
    [path |-> path, kind |-> "symlink", target |-> target, data |-> NoData]

Exists(files, path) == \E e \in files : e.path = path

Entry(files, path) == CHOOSE e \in files : e.path = path

\* where a symbolic link entry points, as an absolute path
ResolveLink(e) == Normalize(Dirname(e.path), e.target)

(***************************************************************************)
(* Image contents.  Cells are <<column, row>>, row 0 at the top.           *)
(***************************************************************************)
Cells(cols, rows) == (0..(cols - 1)) \X (0..(rows - 1))

\* contents taken by images of more than MaxFreeCells tiles: transparent
\* everywhere, striped by column, striped by row, diagonal stripes, and
\* transparent but for the last tile
Patterns(cols, rows) ==
    { [c \in Cells(cols, rows) |-> 0],
      [c \in Cells(cols, rows) |-> c[1] % (MaxBuffer + 1)],
      [c \in Cells(cols, rows) |-> c[2] % (MaxBuffer + 1)],
      [c \in Cells(cols, rows) |-> (c[1] + c[2]) % (MaxBuffer + 1)],
      [c \in Cells(cols, rows) |->
          IF c = <<cols - 1, rows - 1>> THEN MaxBuffer ELSE 0] }

\* the contents an input image of cols x rows whole tiles may have
Contents(cols, rows) ==
    IF cols * rows <= MaxFreeCells THEN [Cells(cols, rows) -> Buffers]
    ELSE Patterns(cols, rows)

\* the contents a resampled (shrunk or stretched, then aligned) image may
\* have: the resampling filter is not modelled, its result is any of these
Resampled(cols, rows) ==
    { [c \in Cells(cols, rows) |-> 0],
      [c \in Cells(cols, rows) |-> (c[1] + c[2]) % (MaxBuffer + 1)] }

(***************************************************************************)
(* Hashers.  get_hasher() gives the default content hash; any callable     *)
(* from buffers to integers may be handed to TmsBase instead.              *)
(***************************************************************************)
\* the default hasher: a content hash without collisions on Buffers
DefaultHasher == [b \in Buffers |-> 17 * b + 10]

\* a hasher that maps every buffer to the same value
ConstantHasher == [b \in Buffers |-> 0]

\* a hasher with collisions between some buffers only
ParityHasher == [b \in Buffers |-> b % 2]

Hashers == {DefaultHasher, ConstantHasher, ParityHasher}

(***************************************************************************)
(* VImage geometry.  An image value is [W, H, content]; a scale is the     *)
(* fraction <<n, d>> with d > 0; the results carry err, "" for a normal    *)
(* return and else the exception raised.                                   *)
(***************************************************************************)
\* stretch with the output size that puts the centres of the corner pixels
\* a whole scale apart: scale * (size - 1) + 1
stretch_PixelCenters(W, H, xscale, yscale) ==
    IF xscale[1] < xscale[2] \/ yscale[1] < yscale[2]
    THEN [err |-> "ValueError", W |-> W, H |-> H, affine |-> FALSE]
    ELSE LET N == IntDiv((W - 1) * xscale[1], xscale[2]) + 1
             M == IntDiv((H - 1) * yscale[1], yscale[2]) + 1
         IN  IF W = 1 \/ H = 1
             THEN [err |-> "ZeroDivisionError", W |-> W, H |-> H,
                   affine |-> FALSE]
             ELSE [err |-> "", W |-> N, H |-> M, affine |-> TRUE]

\* VImage.stretch: the size of the stretched image, and whether
\* self.affine(...) was called
stretch(W, H, xscale, yscale) ==
    IF xscale[1] < xscale[2] \/ yscale[1] < yscale[2]
    THEN [err |-> "ValueError", W |-> W, H |-> H, affine |-> FALSE]
    ELSE LET N == IntDiv(W * xscale[1], xscale[2])
             M == IntDiv(H * yscale[1], yscale[2])
         IN  \* a = (N - 1) / (Xsize - 1), d = (M - 1) / (Ysize - 1)
             IF W = 1 \/ H = 1
             THEN [err |-> "ZeroDivisionError", W |-> W, H |-> H,
                   affine |-> FALSE]
             ELSE [err |-> "", W |-> N, H |-> M, affine |-> TRUE]

\* shrink without the upper limit of its checks: any scale > 0 passes
shrink_NoUpperLimit(W, H, xscale, yscale) ==
    IF ~(0 < xscale[1]) \/ ~(0 < yscale[1])
    THEN [err |-> "ValueError", W |-> W, H |-> H, affine |-> FALSE]
    ELSE [err |-> "",
          W |-> IntDiv(W * xscale[1], xscale[2]),
          H |-> IntDiv(H * yscale[1], yscale[2]),
          affine |-> TRUE]

\* VImage.shrink: the size of the shrunk image, and whether
\* self.affine(...) was called
shrink(W, H, xscale, yscale) ==
    IF ~(0 < xscale[1] /\ xscale[1] <= xscale[2])
          \/ ~(0 < yscale[1] /\ yscale[1] <= yscale[2])
    THEN [err |-> "ValueError", W |-> W, H |-> H, affine |-> FALSE]
    ELSE [err |-> "",
          W |-> IntDiv(W * xscale[1], xscale[2]),
          H |-> IntDiv(H * yscale[1], yscale[2]),
          affine |-> TRUE]

\* tms_align that leaves the pad offsets out of the number of tiles
tms_align_PadIgnored(W, H, tile_width, tile_height, offset) ==
    LET x == Round(offset.x * tile_width, offset.d) % tile_width
        y == Round(H * offset.d - offset.y * tile_height, offset.d)
                 % tile_height
        width == Ceil(W, tile_width) * tile_width
        height == Ceil(H, tile_height) * tile_height
    IN  IF width = W /\ height = H
        THEN IF x = y /\ y = 0
             THEN [err |-> "", W |-> W, H |-> H, x |-> x, y |-> y,
                   embedded |-> FALSE]
             ELSE [err |-> "AssertionError", W |-> W, H |-> H,
                   x |-> x, y |-> y, embedded |-> FALSE]
        ELSE [err |-> "", W |-> width, H |-> height, x |-> x, y |-> y,
              embedded |-> TRUE]

\* tms_align without the "No change" return: it always embeds
tms_align_AlwaysEmbed(W, H, tile_width, tile_height, offset) ==
    LET x == Round(offset.x * tile_width, offset.d) % tile_width
        y == Round(H * offset.d - offset.y * tile_height, offset.d)
                 % tile_height
        tiles_x == Ceil(2 * W + x, 2 * tile_width)
        tiles_y == Ceil(2 * H + y, 2 * tile_height)
    IN  [err |-> "", W |-> tiles_x * tile_width, H |-> tiles_y * tile_height,
         x |-> x, y |-> y, embedded |-> TRUE]

\* VImage.tms_align for the offset (offset.x / offset.d, offset.y / offset.d):
\* the size of the aligned image, the place (x, y) of the original in it and
\* whether the original was embedded in a new canvas
tms_align(W, H, tile_width, tile_height, offset) ==
    LET x == Round(offset.x * tile_width, offset.d) % tile_width
        y == Round(H * offset.d - offset.y * tile_height, offset.d)
                 % tile_height
        tiles_x == Ceil(2 * W + x, 2 * tile_width)
        tiles_y == Ceil(2 * H + y, 2 * tile_height)
        width == tiles_x * tile_width
        height == tiles_y * tile_height
    IN  IF width = W /\ height = H
        THEN IF x = y /\ y = 0
             THEN [err |-> "", W |-> W, H |-> H, x |-> x, y |-> y,
                   embedded |-> FALSE]
             ELSE [err |-> "AssertionError", W |-> W, H |-> H,
                   x |-> x, y |-> y, embedded |-> FALSE]
        ELSE [err |-> "", W |-> width, H |-> height, x |-> x, y |-> y,
              embedded |-> TRUE]

(***************************************************************************)
(* TmsTiles.  A TmsTiles value is                                          *)
(*   [W, H, content, tile_width, tile_height, offset, resolution, hasher]  *)
(* with offset = [x, y] in whole tiles.                                    *)
(***************************************************************************)
\* number of whole tile columns and rows of an image
Cols(t) == t.W \div t.tile_width
Rows(t) == t.H \div t.tile_height

\* image.extract_area(left, top, tile_width, tile_height): the raw buffer of
\* the tile; VIPS raises an error for an area that leaves the image
extract_area(t, left, top) ==
    IF left + t.tile_width > t.W \/ top + t.tile_height > t.H
    THEN [err |-> "VipsError", image |-> 0]
    ELSE [err |-> "",
          image |-> t.content[<<left \div t.tile_width,
                                top \div t.tile_height>>]]

\* NextTile with the two loops exchanged: columns first
NextTile_ColumnMajor(t, left, top) ==
    IF top + t.tile_height < t.H
    THEN [x |-> left, y |-> top + t.tile_height, more |-> TRUE]
    ELSE [x |-> left + t.tile_width, y |-> 0,
          more |-> left + t.tile_width < t.W]

\* the loops of _slice, "for y in xrange(0, image_height, tile_height)" and
\* "for x in xrange(0, image_width, tile_width)": the position that
\* follows (left, top), and whether there is one
NextTile(t, left, top) ==
    IF left + t.tile_width < t.W
    THEN [x |-> left + t.tile_width, y |-> top, more |-> TRUE]
    ELSE [x |-> 0, y |-> top + t.tile_height,
          more |-> top + t.tile_height < t.H]

\* TileOffset with y counted from the top of the image
TileOffset_TopOrigin(t, left, top) ==
    [x |-> IntDiv(left + t.offset.x * t.tile_width, t.tile_width),
     y |-> IntDiv(top + t.offset.y * t.tile_height, t.tile_height)]

\* the TMS offset _slice gives the tile cut at pixel (left, top)
TileOffset(t, left, top) ==
    [x |-> IntDiv(left + t.offset.x * t.tile_width, t.tile_width),
     y |-> IntDiv((t.H - top) + (t.offset.y - 1) * t.tile_height,
                  t.tile_height)]

\* get_hash that hashes an empty buffer instead of the tile's pixels
get_hash_NoPixels(tile) == tile.hasher[0]

\* TmsTile.get_hash
get_hash(tile) == tile.hasher[tile.image]

\* TmsTile.generate_filepath: the path relative to outputdir
generate_filepath(key, resolution, offset) ==
    IF resolution = None THEN <<FileName(offset, key)>>
    ELSE <<DirName(resolution), FileName(offset, key)>>

\* the directory slice() makes before slicing
LevelDir(resolution) ==
    IF resolution = None THEN OutputDir
    ELSE Append(OutputDir, DirName(resolution))

(***************************************************************************)
(* State.                                                                  *)
(***************************************************************************)
VARIABLES
    args,     \* the call: the entry point, min_resolution, max_resolution,
              \* and the dataset: its native resolution, the size W x H of
              \* its image and the lower left corner of its TMS extents
    tiles,    \* the TmsTiles being sliced
    pc,       \* where the driver is: "slice", "loop", "join", "returned",
              \* "done", "raised"
    err,      \* the exception that left the driver, "" when none
    phase,    \* image_pyramid: "native", "down" or "up"
    res,      \* image_pyramid: the loop variable res
    x, y,     \* _slice: the loop variables, in pixels
    seen,     \* _slice: the seen map, hash -> path relative to outputdir
    pool,     \* tasks handed to the pool and not yet completed
    fs,       \* entries below outputdir
    dirs      \* directories made

vars == <<args, tiles, pc, err, phase, res, x, y, seen, pool, fs, dirs>>

(***************************************************************************)
(* TmsTile.                                                                *)
(***************************************************************************)
\* create_symlink with the target taken relative to the link itself instead
\* of the link's directory
create_symlink_NoDirname(files, source, filepath) ==
    LET absfilepath == OutputDir \o filepath
        abssourcepath == OutputDir \o source
        sourcepath == RelPath(abssourcepath, absfilepath)
    IN  IF Exists(files, absfilepath)
        THEN [err |-> "OSError", fs |-> files]
        ELSE [err |-> "",
              fs |-> files \cup {LinkEntry(absfilepath, sourcepath)}]

\* create_symlink that links to the absolute path of the source
create_symlink_Absolute(files, source, filepath) ==
    LET absfilepath == OutputDir \o filepath
        abssourcepath == OutputDir \o source
    IN  IF Exists(files, absfilepath)
        THEN [err |-> "OSError", fs |-> files]
        ELSE [err |-> "",
              fs |-> files \cup {LinkEntry(absfilepath, abssourcepath)}]

\* TmsTile.create_symlink: os.symlink fails when the link path exists
create_symlink(files, source, filepath) ==
    LET absfilepath == OutputDir \o filepath
        abssourcepath == OutputDir \o source
        sourcepath == RelPath(abssourcepath, Dirname(absfilepath))
    IN  IF Exists(files, absfilepath)
        THEN [err |-> "OSError", fs |-> files]
        ELSE [err |-> "",
              fs |-> files \cup {LinkEntry(absfilepath, sourcepath)}]

\* pool.apply_async(func=self._render_png, kwds=dict(filename=...))
apply_async(tasks, tile, filename) ==
    tasks \cup {[filename |-> filename, image |-> tile.image]}

\* render that writes nothing for a hash already seen
render_NoLink(tile, seenmap, tasks, files) ==
    LET hashed == get_hash(tile)
        filepath == generate_filepath(hashed, tile.resolution, tile.offset)
    IN  IF hashed \in DOMAIN seenmap
        THEN [err |-> "", seen |-> seenmap, pool |-> tasks, fs |-> files]
        ELSE [err |-> "",
              seen |-> seenmap @@ (hashed :> filepath),
              pool |-> apply_async(tasks, tile, OutputDir \o filepath),
              fs |-> files]

\* TmsTile.render: a symlink for a hash already seen, else an entry in the
\* seen map and an encode task in the pool
render(tile, seenmap, tasks, files) ==
    LET hashed == get_hash(tile)
        filepath == generate_filepath(hashed, tile.resolution, tile.offset)
    IN  IF hashed \in DOMAIN seenmap
        THEN LET link == create_symlink(files, seenmap[hashed], filepath)
             IN  [err |-> link.err, seen |-> seenmap, pool |-> tasks,
                  fs |-> link.fs]
        ELSE [err |-> "",
              seen |-> seenmap @@ (hashed :> filepath),
              pool |-> apply_async(tasks, tile, OutputDir \o filepath),
              fs |-> files]

\* TmsBase._render_png run by a pool worker: vips2png writes the file
render_png(files, task) ==
    {e \in files : e.path # task.filename}
        \cup {FileEntry(task.filename, task.image)}

(***************************************************************************)
(* TmsTiles.slice and TmsTiles._slice.                                     *)
(***************************************************************************)
\* makedirs(path, ignore_exists=True): the directory and its parents
makedirs(made, path) ==
    made \cup {SubSeq(path, 1, k) : k \in 1..Len(path)}

\* the checks of slice() without the check of the height
Aligned_WidthOnly(t) == t.W % t.tile_width = 0

\* the checks of slice(): the image holds a whole number of tiles
Aligned(t) == t.W % t.tile_width = 0 /\ t.H % t.tile_height = 0

\* slice() with a seen map that outlives the call instead of the "seen = {}"
\* of _slice
SliceStart_SharedSeen ==
    /\ pc = "slice"
    /\ dirs' = makedirs(dirs, LevelDir(tiles.resolution))
    /\ IF Aligned(tiles)
       THEN /\ pc' = "loop"
            /\ x' = 0
            /\ y' = 0
            /\ seen' = seen
            /\ err' = err
       ELSE /\ pc' = "raised"
            /\ err' = "ValueError"
            /\ UNCHANGED <<x, y, seen>>
    /\ UNCHANGED <<args, tiles, phase, res, pool, fs>>

\* slice() up to the first iteration of _slice
SliceStart ==
    /\ pc = "slice"
    /\ dirs' = makedirs(dirs, LevelDir(tiles.resolution))
    /\ IF Aligned(tiles)
       THEN /\ pc' = "loop"
            /\ x' = 0
            /\ y' = 0
            /\ seen' = <<>>
            /\ err' = err
       ELSE /\ pc' = "raised"
            /\ err' = "ValueError"
            /\ UNCHANGED <<x, y, seen>>
    /\ UNCHANGED <<args, tiles, phase, res, pool, fs>>

\* one iteration of the loops of _slice: extract, place, render
SliceTile ==
    /\ pc = "loop"
    /\ LET out == extract_area(tiles, x, y)
           tile == [image |-> out.image,
                    offset |-> TileOffset(tiles, x, y),
                    resolution |-> tiles.resolution,
                    hasher |-> tiles.hasher]
           r == IF out.err # ""
                THEN [err |-> out.err, seen |-> seen, pool |-> pool,
                      fs |-> fs]
                ELSE render(tile, seen, pool, fs)
           next == NextTile(tiles, x, y)
       IN  /\ seen' = r.seen
           /\ pool' = r.pool
           /\ fs' = r.fs
           /\ IF r.err # ""
              THEN /\ pc' = "raised"
                   /\ err' = r.err
                   /\ UNCHANGED <<x, y>>
              ELSE /\ err' = err
                   /\ x' = next.x
                   /\ y' = next.y
                   /\ pc' = IF next.more THEN "loop" ELSE "join"
    /\ UNCHANGED <<args, tiles, phase, res, dirs>>

\* a join that returns while one task is still running
PoolIdle_OneLeft(tasks) == Cardinality(tasks) <= 1

\* Pool.join returns once every task handed to the pool has completed
PoolIdle(tasks) == tasks = {}

\* _slice without its pool.join(): it returns at once
JoinReturns_NoJoin == TRUE

\* the pool.join() that ends _slice
JoinReturns == PoolIdle(pool)

\* pool.join() returns, and with it _slice and slice
SliceJoin ==
    /\ pc = "join"
    /\ JoinReturns
    /\ pc' = "returned"
    /\ UNCHANGED <<args, tiles, err, phase, res, x, y, seen, pool, fs, dirs>>

\* a pool worker completes one of the pending encode tasks
Worker ==
    \E task \in pool :
        /\ fs' = render_png(fs, task)
        /\ pool' = pool \ {task}
        /\ UNCHANGED <<args, tiles, pc, err, phase, res, x, y, seen, dirs>>

(***************************************************************************)
(* The slicer on its own: a TmsTiles built by a caller and sliced, as      *)
(* image_slice does.                                                       *)
(***************************************************************************)
TileSides == 2..MaxTileSide

\* slice() is about to be called on a TmsTiles of any size, tile size,
\* integer offset, content and hasher, flat or with a resolution
InitSlice ==
    /\ \E tw \in TileSides, th \in TileSides,
          W \in 1..MaxSide, H \in 1..MaxSide,
          ox \in 0..MaxOffset, oy \in 0..MaxOffset,
          r \in {None, MaxNative}, h \in Hashers :
          \E c \in Contents(W \div tw, H \div th) :
              tiles = [W |-> W, H |-> H, content |-> c,
                       tile_width |-> tw, tile_height |-> th,
                       offset |-> [x |-> ox, y |-> oy],
                       resolution |-> r, hasher |-> h]
    /\ args = [entry |-> "slice", min_resolution |-> None,
               max_resolution |-> None, resolution |-> None,
               W |-> tiles.W, H |-> tiles.H, lower_left |-> tiles.offset]
    /\ pc = "slice"
    /\ err = ""
    /\ phase = "native"
    /\ res = None
    /\ x = 0
    /\ y = 0
    /\ seen = <<>>
    /\ pool = {}
    /\ fs = {}
    /\ dirs = {}

NextSlice == SliceStart \/ SliceTile \/ SliceJoin \/ Worker

Spec == InitSlice /\ [][NextSlice]_vars

(***************************************************************************)
(* What the properties below speak of.                                     *)
(***************************************************************************)
\* the cells of a level, <<column, row>> with row 0 the top row
CellsOf(t) == Cells(Cols(t), Rows(t))

\* the content hash of the tile cut from cell c
HashOf(t, c) == t.hasher[t.content[c]]

\* the path of the tile cut from cell c, by the TMS convention: columns
\* count from offset.x, rows from the bottom of the image from offset.y
TilePath(t, c) ==
    Append(LevelDir(t.resolution),
           FileName([x |-> t.offset.x + c[1],
                     y |-> t.offset.y + Rows(t) - 1 - c[2]],
                    HashOf(t, c)))

\* the entries in the directory of a level
LevelEntries(t) == {e \in fs : Dirname(e.path) = LevelDir(t.resolution)}

IsFile(path) == \E e \in fs : e.path = path /\ e.kind = "file"

IsLink(path) == \E e \in fs : e.path = path /\ e.kind = "symlink"

\* the regular file behind the entry at a path: the path itself for a
\* file, the resolved target for a symbolic link, <<>> without an entry
FileBehind(path) ==
    IF ~Exists(fs, path) THEN <<>>
    ELSE LET e == Entry(fs, path)
         IN  IF e.kind = "file" THEN path ELSE ResolveLink(e)

\* cell c comes before cell d in row-major order, rows from the top
RowMajorBefore(c, d) == c[2] < d[2] \/ (c[2] = d[2] /\ c[1] < d[1])

\* c is the first cell of its hash in row-major order
FirstOfHash(t, c) ==
    \A d \in CellsOf(t) : HashOf(t, d) = HashOf(t, c) => ~RowMajorBefore(d, c)

\* the hasher gives different buffers of the level different hashes
CollisionFree(t) ==
    \A c, d \in CellsOf(t) :
        HashOf(t, c) = HashOf(t, d) => t.content[c] = t.content[d]

(***************************************************************************)
(* C1.  When slice() has returned for an image of w x h whole tiles, the   *)
(* directory of the level holds exactly w * h entries, PNG files and       *)
(* symbolic links together, whatever the contents and the hasher.          *)
(***************************************************************************)
C1_SliceCount ==
    pc = "returned" =>
        /\ Cardinality(LevelEntries(tiles)) = Cols(tiles) * Rows(tiles)
        /\ LevelEntries(tiles) = fs

C1_Witness ==
    /\ pc = "returned"
    /\ Cols(tiles) * Rows(tiles) = 4
    /\ \E e \in fs : e.kind = "file"
    /\ \E e \in fs : e.kind = "symlink"

(***************************************************************************)
(* C2.  As claimed: when slice() has returned, among the tiles of a level  *)
(* with bytewise equal pixel buffers exactly one is a regular file and     *)
(* every other one is a symbolic link that resolves to that file.          *)
(***************************************************************************)
C2_Claim ==
    pc = "returned" =>
        \A c \in CellsOf(tiles) :
            LET group == {d \in CellsOf(tiles) :
                             tiles.content[d] = tiles.content[c]}
            IN  \E f \in group :
                    /\ IsFile(TilePath(tiles, f))
                    /\ \A d \in group \ {f} :
                           /\ IsLink(TilePath(tiles, d))
                           /\ FileBehind(TilePath(tiles, d))
                                  = TilePath(tiles, f)

(***************************************************************************)
(* C2, amended.  When slice() has returned, among the tiles of a level     *)
(* with equal content hashes (the tiles with bytewise equal buffers are    *)
(* among them) exactly one is a regular file and every other one is a      *)
(* symbolic link that resolves to that file.                               *)
(***************************************************************************)
C2_HashGroups ==
    pc = "returned" =>
        \A c \in CellsOf(tiles) :
            LET group == {d \in CellsOf(tiles) :
                             HashOf(tiles, d) = HashOf(tiles, c)}
            IN  /\ {d \in CellsOf(tiles) :
                       tiles.content[d] = tiles.content[c]} \subseteq group
                /\ \E f \in group :
                       /\ IsFile(TilePath(tiles, f))
                       /\ \A d \in group \ {f} :
                              /\ IsLink(TilePath(tiles, d))
                              /\ FileBehind(TilePath(tiles, d))
                                     = TilePath(tiles, f)

C2_Witness ==
    /\ pc = "returned"
    /\ \E c, d, e \in CellsOf(tiles) :
           /\ c # d
           /\ tiles.content[c] = tiles.content[d]
           /\ tiles.content[e] # tiles.content[c]
           /\ HashOf(tiles, e) = HashOf(tiles, c)
           /\ IsFile(TilePath(tiles, c))
           /\ IsLink(TilePath(tiles, d))
           /\ IsLink(TilePath(tiles, e))

(***************************************************************************)
(* C7.  slice() on an image whose width or height is not a whole number    *)
(* of tiles raises ValueError before any tile is extracted, hashed, linked *)
(* or handed to the pool; only the output directory may have been made.    *)
(***************************************************************************)
C7_Misaligned ==
    (tiles.W % tiles.tile_width # 0 \/ tiles.H % tiles.tile_height # 0) =>
        /\ pc \in {"slice", "raised"}
        /\ pc = "raised" => err = "ValueError"
        /\ pc = "slice" => err = ""
        /\ fs = {} /\ pool = {} /\ seen = <<>> /\ x = 0 /\ y = 0
        /\ dirs \subseteq {SubSeq(LevelDir(tiles.resolution), 1, k) :
                              k \in 1..Len(LevelDir(tiles.resolution))}

C7_Witness ==
    /\ pc = "raised"
    /\ err = "ValueError"
    /\ tiles.W % tiles.tile_width = 0
    /\ tiles.H % tiles.tile_height # 0
    /\ tiles.H > tiles.tile_height
    /\ LevelDir(tiles.resolution) \in dirs

(***************************************************************************)
(* C8.  When slice() has returned for an aligned image of w x h tiles at   *)
(* the integer offset (ox, oy), the level holds exactly one entry for each *)
(* (tx, ty) in [ox, ox+w-1] x [oy, oy+h-1] and no other entry, and the     *)
(* tile cut from the image row at top pixel y has ty = oy + h - 1 -        *)
(* y / tile_height: the entry at that place carries the hash of that tile. *)
(***************************************************************************)
C8_TileCoordinates ==
    pc = "returned" =>
        /\ \A e \in fs :
               \E c \in CellsOf(tiles) : e.path = TilePath(tiles, c)
        /\ \A c \in CellsOf(tiles) :
               Cardinality({e \in fs :
                   /\ Dirname(e.path) = LevelDir(tiles.resolution)
                   /\ e.path[Len(e.path)][2] = tiles.offset.x + c[1]
                   /\ e.path[Len(e.path)][3]
                          = tiles.offset.y + Rows(tiles) - 1 - c[2]}) = 1
        /\ \A c \in CellsOf(tiles) : Exists(fs, TilePath(tiles, c))

C8_Witness ==
    /\ pc = "returned"
    /\ Rows(tiles) = 2
    /\ Cols(tiles) = 2
    /\ tiles.offset = [x |-> 1, y |-> 1]
    /\ tiles.content[<<0, 0>>] # tiles.content[<<0, 1>>]
    /\ HashOf(tiles, <<0, 0>>) # HashOf(tiles, <<0, 1>>)
    /\ Exists(fs, TilePath(tiles, <<0, 0>>))

(***************************************************************************)
(* C9.  At every moment of a slice, whatever the order in which the pool   *)
(* workers complete their tasks: a regular file of the level is the tile   *)
(* of the first cell of its hash in row-major order, a symbolic link is    *)
(* the tile of a later cell of its hash, and when slice() has returned     *)
(* the first cell of every hash is a regular file and all later ones are   *)
(* symbolic links.                                                         *)
(***************************************************************************)
C9_FirstInRowMajorOrder ==
    pc \in {"loop", "join", "returned"} =>
        /\ \A c \in CellsOf(tiles) :
               /\ IsFile(TilePath(tiles, c)) => FirstOfHash(tiles, c)
               /\ IsLink(TilePath(tiles, c)) => ~FirstOfHash(tiles, c)
        /\ pc = "returned" =>
               \A c \in CellsOf(tiles) :
                   IF FirstOfHash(tiles, c)
                   THEN IsFile(TilePath(tiles, c))
                   ELSE IsLink(TilePath(tiles, c))

\* the pool completed a later task while an earlier one is still pending,
\* and a duplicate has been linked
C9_Witness ==
    /\ pc \in {"loop", "join"}
    /\ \E c, d, e \in CellsOf(tiles) :
           /\ RowMajorBefore(c, d)
           /\ \E task \in pool : task.filename = TilePath(tiles, c)
           /\ IsFile(TilePath(tiles, d))
           /\ IsLink(TilePath(tiles, e))

(***************************************************************************)
(* C10.  As claimed: for every hasher, two tiles at different places of a  *)
(* level share one file (one is a symbolic link to the other's file, or    *)
(* both are links to the same file) if and only if their pixel buffers are *)
(* bytewise equal.                                                         *)
(***************************************************************************)
Linked(t, c, d) ==
    /\ Exists(fs, TilePath(t, c))
    /\ Exists(fs, TilePath(t, d))
    /\ IsFile(FileBehind(TilePath(t, c)))
    /\ FileBehind(TilePath(t, c)) = FileBehind(TilePath(t, d))

C10_Claim ==
    pc = "returned" =>
        \A c, d \in CellsOf(tiles) :
            c # d => (Linked(tiles, c, d)
                          <=> tiles.content[c] = tiles.content[d])

(***************************************************************************)
(* C10, amended.  Two tiles at different places of a level share one file  *)
(* if and only if the hasher gives their pixel buffers the same hash:      *)
(* tiles with bytewise equal buffers always do, and tiles with different   *)
(* buffers do exactly when the hasher collides on them, so for a hasher    *)
(* without collisions on the level the claim holds as stated.              *)
(***************************************************************************)
C10_LinkedIffSameHash ==
    pc = "returned" =>
        /\ \A c, d \in CellsOf(tiles) :
               /\ Linked(tiles, c, d) <=> HashOf(tiles, c) = HashOf(tiles, d)
               /\ tiles.content[c] = tiles.content[d] => Linked(tiles, c, d)
        /\ CollisionFree(tiles) =>
               \A c, d \in CellsOf(tiles) :
                   Linked(tiles, c, d)
                       <=> tiles.content[c] = tiles.content[d]

C10_Witness ==
    /\ pc = "returned"
    /\ \E c, d, e \in CellsOf(tiles) :
           /\ tiles.content[c] # tiles.content[d]
           /\ Linked(tiles, c, d)
           /\ ~Linked(tiles, c, e)

(***************************************************************************)
(* TmsTiles.downsample and TmsTiles.upsample: the geometry of the next     *)
(* level; geom.err names the exception raised, "" when none.               *)
(***************************************************************************)
RECURSIVE Pow2(_)
\* 2 ** k for k >= 0
Pow2(k) == IF k <= 0 THEN 1 ELSE 2 * Pow2(k - 1)

\* what a failed step returns: the level unchanged and the exception
Raised(t, e) ==
    [err |-> e, W |-> t.W, H |-> t.H, offset |-> t.offset,
     resolution |-> t.resolution, x |-> 0, y |-> 0, scale |-> 1]

\* the next level: an aligned image, the offset cut to integers
Level(aligned, offset, resolution, scale) ==
    [err |-> aligned.err, W |-> aligned.W, H |-> aligned.H,
     offset |-> [x |-> IntDiv(offset.x, offset.d),
                 y |-> IntDiv(offset.y, offset.d)],
     resolution |-> resolution, x |-> aligned.x, y |-> aligned.y,
     scale |-> scale]

\* downsample that aligns to the offset already cut to whole tiles
downsample_WholeOffset(t, resolution) ==
    IF ~(resolution >= 0 /\ resolution = t.resolution - 1)
    THEN Raised(t, "AssertionError")
    ELSE LET offset == [x |-> t.offset.x \div 2, y |-> t.offset.y \div 2,
                        d |-> 1]
             shrunk == shrink(t.W, t.H, <<1, 2>>, <<1, 2>>)
         IN  IF shrunk.err # "" THEN Raised(t, shrunk.err)
             ELSE Level(tms_align(shrunk.W, shrunk.H, t.tile_width,
                                  t.tile_height, offset),
                        offset, resolution, 2)

\* TmsTiles.downsample
downsample(t, resolution) ==
    IF ~(resolution >= 0 /\ resolution = t.resolution - 1)
    THEN Raised(t, "AssertionError")
    ELSE LET offset == [x |-> t.offset.x, y |-> t.offset.y, d |-> 2]
             shrunk == shrink(t.W, t.H, <<1, 2>>, <<1, 2>>)
         IN  IF shrunk.err # "" THEN Raised(t, shrunk.err)
             ELSE Level(tms_align(shrunk.W, shrunk.H, t.tile_width,
                                  t.tile_height, offset),
                        offset, resolution, 2)

\* upsample that always doubles, whatever the level it starts from
upsample_OneLevel(t, resolution) ==
    IF ~(resolution > t.resolution)
    THEN Raised(t, "AssertionError")
    ELSE LET scale == 2
             offset == [x |-> t.offset.x * scale, y |-> t.offset.y * scale,
                        d |-> 1]
             stretched == stretch(t.W, t.H, <<scale, 1>>, <<scale, 1>>)
         IN  IF stretched.err # "" THEN Raised(t, stretched.err)
             ELSE Level(tms_align(stretched.W, stretched.H, t.tile_width,
                                  t.tile_height, offset),
                        offset, resolution, scale)

\* TmsTiles.upsample
upsample(t, resolution) ==
    IF ~(resolution > t.resolution)
    THEN Raised(t, "AssertionError")
    ELSE LET scale == Pow2(resolution - t.resolution)
             offset == [x |-> t.offset.x * scale, y |-> t.offset.y * scale,
                        d |-> 1]
             stretched == stretch(t.W, t.H, <<scale, 1>>, <<scale, 1>>)
         IN  IF stretched.err # "" THEN Raised(t, stretched.err)
             ELSE Level(tms_align(stretched.W, stretched.H, t.tile_width,
                                  t.tile_height, offset),
                        offset, resolution, scale)

(***************************************************************************)
(* image_pyramid.                                                          *)
(***************************************************************************)
\* DownLeft for a range that leaves min_resolution itself out
DownLeft_Exclusive ==
    IF args.min_resolution = None \/ phase = "up" THEN {}
    ELSE IF phase = "native"
         THEN (args.min_resolution + 1)..(args.resolution - 1)
         ELSE (args.min_resolution + 1)..(res - 1)

\* the resolutions "for res in reversed(range(min_resolution, resolution))"
\* has still to visit; the greatest comes first
DownLeft ==
    IF args.min_resolution = None \/ phase = "up" THEN {}
    ELSE IF phase = "native"
         THEN args.min_resolution..(args.resolution - 1)
         ELSE args.min_resolution..(res - 1)

\* the resolutions "for res in range(resolution + 1, max_resolution + 1)"
\* has still to visit; the least comes first
UpLeft ==
    IF args.max_resolution = None THEN {}
    ELSE IF phase = "up"
         THEN (res + 1)..args.max_resolution
         ELSE (args.resolution + 1)..args.max_resolution

\* the loop without reversed(): the least comes first
Max_Ascending(S) == CHOOSE m \in S : \A k \in S : m <= k

Max(S) == CHOOSE m \in S : \A k \in S : k <= m
Min(S) == CHOOSE m \in S : \A k \in S : m <= k

\* the driver goes on to the level of the given geometry, or raises
NextLevel(geom, nextphase) ==
    /\ phase' = nextphase
    /\ res' = geom.resolution
    /\ IF geom.err # ""
       THEN /\ pc' = "raised"
            /\ err' = geom.err
            /\ tiles' = tiles
       ELSE /\ pc' = "slice"
            /\ err' = err
            /\ \E c \in Resampled(geom.W \div tiles.tile_width,
                                  geom.H \div tiles.tile_height) :
                   tiles' = [tiles EXCEPT !.W = geom.W, !.H = geom.H,
                                          !.content = c,
                                          !.offset = geom.offset,
                                          !.resolution = geom.resolution]
    /\ UNCHANGED <<args, x, y, seen, pool, fs, dirs>>

\* one round of the downsampling loop: tiles = tiles.downsample(res)
Downsample ==
    /\ args.entry = "image_pyramid"
    /\ pc = "returned"
    /\ DownLeft # {}
    /\ NextLevel(downsample(tiles, Max(DownLeft)), "down")

\* one round of the upsampling loop: tiles = tiles.upsample(res)
Upsample ==
    /\ args.entry = "image_pyramid"
    /\ pc = "returned"
    /\ DownLeft = {}
    /\ UpLeft # {}
    /\ NextLevel(upsample(tiles, Min(UpLeft)), "up")

\* both loops are over: image_pyramid returns
PyramidReturn ==
    /\ args.entry = "image_pyramid"
    /\ pc = "returned"
    /\ DownLeft = {}
    /\ UpLeft = {}
    /\ pc' = "done"
    /\ UNCHANGED <<args, tiles, err, phase, res, x, y, seen, pool, fs, dirs>>

\* the shapes of the native image, in whole tiles: the whole TMS grid of
\* the resolution, or a single tile of it
NativeShapes(n) ==
    {[w |-> Pow2(n), h |-> Pow2(n), x |-> 0, y |-> 0]}
      \cup {[w |-> 1, h |-> 1, x |-> ox, y |-> oy] :
               ox \in 0..Min({MaxOffset, Pow2(n) - 1}),
               oy \in 0..Min({MaxOffset, Pow2(n) - 1})}

\* pixels missing from a whole number of tiles, in width and in height
Crops == {<<0, 0>>, <<1, 0>>, <<0, 1>>}

\* image_pyramid has opened the dataset and built the native TmsTiles
InitPyramid ==
    /\ \E n \in 0..MaxNative,
          min \in {None} \cup 0..MaxResolution,
          max \in {None} \cup 0..MaxResolution,
          h \in Hashers, crop \in Crops :
          \E s \in NativeShapes(n) :
              \E c \in Patterns(s.w, s.h) :
                  /\ args = [entry |-> "image_pyramid",
                             min_resolution |-> min,
                             max_resolution |-> max, resolution |-> n,
                             W |-> s.w * TILE_SIDE - crop[1],
                             H |-> s.h * TILE_SIDE - crop[2],
                             lower_left |-> [x |-> s.x, y |-> s.y]]
                  /\ tiles = [W |-> s.w * TILE_SIDE - crop[1],
                              H |-> s.h * TILE_SIDE - crop[2],
                              content |-> c,
                              tile_width |-> TILE_SIDE,
                              tile_height |-> TILE_SIDE,
                              offset |-> [x |-> s.x, y |-> s.y],
                              resolution |-> n, hasher |-> h]
    /\ pc = "slice"
    /\ err = ""
    /\ phase = "native"
    /\ res = None
    /\ x = 0
    /\ y = 0
    /\ seen = <<>>
    /\ pool = {}
    /\ fs = {}
    /\ dirs = {}

NextPyramid ==
    \/ SliceStart \/ SliceTile \/ SliceJoin \/ Worker
    \/ Downsample \/ Upsample \/ PyramidReturn

SpecPyramid == InitPyramid /\ [][NextPyramid]_vars

(***************************************************************************)
(* What the properties of image_pyramid speak of.                          *)
(***************************************************************************)
\* the entries in the subdirectory of resolution r
EntriesAt(r) == {e \in fs : Dirname(e.path) = LevelDir(r)}

\* the <<tx, ty>> of the entries in the subdirectory of resolution r
PlacesAt(r) ==
    {<<e.path[Len(e.path)][2], e.path[Len(e.path)][3]>> : e \in EntriesAt(r)}

\* the native image covers the whole TMS grid of its resolution:
\* 2^n x 2^n tiles at offset (0, 0)
WholeGrid ==
    /\ args.W = Pow2(args.resolution) * TILE_SIDE
    /\ args.H = Pow2(args.resolution) * TILE_SIDE
    /\ args.lower_left = [x |-> 0, y |-> 0]

\* the least and the greatest resolution asked for
Lowest ==
    IF args.min_resolution = None THEN args.resolution
    ELSE args.min_resolution

Highest ==
    IF args.max_resolution = None THEN args.resolution
    ELSE args.max_resolution

(***************************************************************************)
(* C3.  Levels are strictly sequential: whenever slice() is entered for a  *)
(* level or a tile of it is dispatched, the pool holds no encode task of   *)
(* another level, and every symbolic link of another level resolves to a   *)
(* written file, whatever the order in which the workers complete.         *)
(***************************************************************************)
C3_LevelsSequential ==
    pc \in {"slice", "loop"} =>
        /\ \A task \in pool :
               Dirname(task.filename) = LevelDir(tiles.resolution)
        /\ \A e \in fs :
               (e.kind = "symlink"
                    /\ Dirname(e.path) # LevelDir(tiles.resolution))
                   => IsFile(ResolveLink(e))

C3_Witness ==
    /\ pc = "loop"
    /\ phase = "up"
    /\ pool # {}
    /\ \E e \in fs : e.kind = "symlink" /\ e.path[2] = DirName(args.resolution)
    /\ \E e \in fs : e.kind = "file" /\ e.path[2] = DirName(Lowest)
    /\ Lowest < args.resolution

(***************************************************************************)
(* C4.  As claimed: with min_resolution greater than the native resolution *)
(* image_pyramid fails before any tile file or symbolic link is written:   *)
(* nothing is written or handed to the pool, and it never returns.         *)
(***************************************************************************)
C4_Claim ==
    (args.min_resolution # None /\ args.min_resolution > args.resolution) =>
        /\ fs = {}
        /\ pool = {}
        /\ pc # "done"

(***************************************************************************)
(* C5.  As claimed: with max_resolution less than the native resolution    *)
(* image_pyramid fails instead of producing a pyramid: it never returns    *)
(* normally.                                                               *)
(***************************************************************************)
C5_Claim ==
    (args.max_resolution # None /\ args.max_resolution < args.resolution) =>
        pc # "done"

(***************************************************************************)
(* C6.  For a native image of 2^n x 2^n tiles at offset (0, 0) and         *)
(* min_resolution <= n <= max_resolution (a bound left out counts as n),   *)
(* image_pyramid raises nothing, and when it has returned every zoom r     *)
(* from the least to the greatest holds exactly 4^r entries, one for each  *)
(* place of the 2^r x 2^r grid.                                            *)
(***************************************************************************)
C6_PyramidCounts ==
    (WholeGrid /\ 0 <= Lowest /\ Lowest <= args.resolution
         /\ args.resolution <= Highest) =>
        /\ pc # "raised"
        /\ pc = "done" =>
               \A r \in Lowest..Highest :
                   /\ Cardinality(EntriesAt(r)) = Pow2(r) * Pow2(r)
                   /\ PlacesAt(r) = (0..(Pow2(r) - 1)) \X (0..(Pow2(r) - 1))

\* native resolution 2, min_resolution 1, max_resolution 3: 4, 16 and 64
C6_Witness ==
    /\ pc = "done"
    /\ WholeGrid
    /\ args.resolution = 2
    /\ args.min_resolution = 1
    /\ args.max_resolution = 3
    /\ Cardinality(EntriesAt(1)) = 4
    /\ Cardinality(EntriesAt(2)) = 16
    /\ Cardinality(EntriesAt(3)) = 64

(***************************************************************************)
(* C11.  The seen map is empty when the first tile of a level is cut, it   *)
(* only ever holds paths of the level being sliced, and every symbolic     *)
(* link resolves into the subdirectory it lies in: no link of one zoom     *)
(* level points to a file of another, even when tiles of different levels  *)
(* have the same content hash.                                             *)
(***************************************************************************)
C11_SeenPerLevel ==
    /\ (pc = "loop" /\ x = 0 /\ y = 0) => seen = <<>>
    /\ pc \in {"loop", "join"} =>
           \A h \in DOMAIN seen :
               OutputDir \o Dirname(seen[h]) = LevelDir(tiles.resolution)
    /\ \A e \in fs :
           e.kind = "symlink" => Dirname(ResolveLink(e)) = Dirname(e.path)

\* two levels hold a file of the same hash each, and the later one a link
C11_Witness ==
    /\ pc = "done"
    /\ \E e1, e2, e3 \in fs :
           /\ e1.kind = "file" /\ e2.kind = "file" /\ e3.kind = "symlink"
           /\ Dirname(e1.path) = LevelDir(args.resolution)
           /\ Dirname(e2.path) # Dirname(e1.path)
           /\ e1.path[Len(e1.path)][4] = e2.path[Len(e2.path)][4]
           /\ e3.path[Len(e3.path)][4] = e2.path[Len(e2.path)][4]
           /\ ResolveLink(e3) = e2.path

(***************************************************************************)
(* C12.  Every symbolic link render() makes, without a resolution (flat)   *)
(* and with one (subdirectory), has a relative target, the path from the   *)
(* link's own directory to the first-seen path of its hash, and resolves   *)
(* to that path, which lies inside outputdir.                              *)
(***************************************************************************)
C12_RelativeInside ==
    \A e \in fs :
        e.kind = "symlink" =>
            /\ e.target # <<>>
            /\ Head(e.target) # Head(OutputDir)
            /\ Len(ResolveLink(e)) > Len(OutputDir)
            /\ SubSeq(ResolveLink(e), 1, Len(OutputDir)) = OutputDir
            /\ \E h \in DOMAIN seen :
                   /\ e.target = RelPath(OutputDir \o seen[h],
                                         Dirname(e.path))
                   /\ ResolveLink(e) = OutputDir \o seen[h]

\* a link in the subdirectory of a resolution, its target written
C12_Witness ==
    /\ pc = "returned"
    /\ tiles.resolution # None
    /\ \E e \in fs :
           /\ e.kind = "symlink"
           /\ Len(e.path) = Len(OutputDir) + 2
           /\ Len(e.target) = 1
           /\ IsFile(ResolveLink(e))

(***************************************************************************)
(* The geometry on its own: one call of stretch, shrink or tms_align on a  *)
(* VImage, or of downsample or upsample on a TmsTiles.  args holds the     *)
(* call and its operands, tiles the image or level the call returned (the  *)
(* one it was made on until it returns).                                   *)
(***************************************************************************)
Scales == (-1..MaxScale) \X (1..2)

EvenTileSides == {2 * k : k \in 1..MaxHalfTile}

\* the call returns r, or raises r.err
Return(r) ==
    /\ tiles' = r
    /\ err' = r.err
    /\ pc' = IF r.err = "" THEN "returned" ELSE "raised"
    /\ UNCHANGED <<args, phase, res, x, y, seen, pool, fs, dirs>>

StretchCall ==
    /\ args.entry = "stretch"
    /\ pc = "call"
    /\ Return(stretch(args.W, args.H, args.xscale, args.yscale))

ShrinkCall ==
    /\ args.entry = "shrink"
    /\ pc = "call"
    /\ Return(shrink(args.W, args.H, args.xscale, args.yscale))

TmsAlignCall ==
    /\ args.entry = "tms_align"
    /\ pc = "call"
    /\ Return(tms_align(args.W, args.H, args.tile_width, args.tile_height,
                        args.offset))

DownsampleCall ==
    /\ args.entry = "downsample"
    /\ pc = "call"
    /\ Return(downsample(args.self, args.resolution))

UpsampleCall ==
    /\ args.entry = "upsample"
    /\ pc = "call"
    /\ Return(upsample(args.self, args.resolution))

\* the calls of stretch and shrink
ScaleCalls(entry) ==
    {[entry |-> entry, W |-> W, H |-> H, xscale |-> xs, yscale |-> ys] :
        W \in 1..MaxPixels, H \in 1..MaxPixels,
        xs \in Scales, ys \in Scales}

\* the calls of tms_align
AlignCalls ==
    {[entry |-> "tms_align", W |-> W, H |-> H,
      tile_width |-> tw, tile_height |-> th,
      offset |-> [x |-> ox, y |-> oy, d |-> d]] :
        W \in 1..MaxPixels, H \in 1..MaxPixels,
        tw \in 1..MaxAlignTile, th \in 1..MaxAlignTile,
        ox \in 0..MaxOffsetNum, oy \in 0..MaxOffsetNum, d \in 1..2}

\* the aligned levels downsample and upsample are called on
Levels ==
    {[W |-> w * tw, H |-> h * th, tile_width |-> tw, tile_height |-> th,
      offset |-> [x |-> ox, y |-> oy], resolution |-> r] :
        w \in 1..MaxLevelTiles, h \in 1..MaxLevelTiles,
        tw \in EvenTileSides, th \in EvenTileSides,
        ox \in 0..MaxLevelOffset, oy \in 0..MaxLevelOffset,
        r \in 0..MaxLevel}

\* the calls of downsample and upsample
LevelCalls(entry) ==
    {[entry |-> entry, self |-> t, W |-> t.W, H |-> t.H,
      resolution |-> r] :
        t \in Levels, r \in 0..(MaxLevel + 1)}

InitGeometry ==
    /\ args \in ScaleCalls("stretch") \cup ScaleCalls("shrink")
                  \cup AlignCalls
                  \cup LevelCalls("downsample") \cup LevelCalls("upsample")
    /\ tiles = IF args.entry \in {"downsample", "upsample"} THEN args.self
               ELSE [W |-> args.W, H |-> args.H]
    /\ pc = "call"
    /\ err = ""
    /\ phase = "native"
    /\ res = None
    /\ x = 0
    /\ y = 0
    /\ seen = <<>>
    /\ pool = {}
    /\ fs = {}
    /\ dirs = {}

NextGeometry ==
    StretchCall \/ ShrinkCall \/ TmsAlignCall \/ DownsampleCall
        \/ UpsampleCall

SpecGeometry == InitGeometry /\ [][NextGeometry]_vars

(***************************************************************************)
(* C13.  As claimed: for every image size, tile size and offset, the width *)
(* and height tms_align gives are the smallest multiples of tile_width and *)
(* tile_height that cover the image placed at its pad offset (x, y):       *)
(* out_w >= x + W > out_w - tile_width and out_h >= y + H >                *)
(* out_h - tile_height.                                                    *)
(***************************************************************************)
C13_Claim ==
    (args.entry = "tms_align" /\ pc = "returned") =>
        /\ tiles.W % args.tile_width = 0
        /\ tiles.H % args.tile_height = 0
        /\ tiles.W >= tiles.x + args.W
        /\ tiles.W - args.tile_width < tiles.x + args.W
        /\ tiles.H >= tiles.y + args.H
        /\ tiles.H - args.tile_height < tiles.y + args.H

(***************************************************************************)
(* C14.  As claimed: whenever the pad offsets tms_align computes are       *)
(* (x, y) = (0, 0), it returns the input image unchanged: the same width   *)
(* and height, nothing embedded.                                           *)
(***************************************************************************)
C14_Claim ==
    (args.entry = "tms_align" /\ pc = "returned"
         /\ tiles.x = 0 /\ tiles.y = 0) =>
        /\ ~tiles.embedded
        /\ tiles.W = args.W
        /\ tiles.H = args.H

(***************************************************************************)
(* C14, amended.  tms_align returns the input image unchanged exactly when *)
(* the pad offsets are (x, y) = (0, 0) and the width and height are whole  *)
(* multiples of tile_width and tile_height; with pad offsets (0, 0) and a  *)
(* width or height that is not a whole multiple it embeds the image at     *)
(* (0, 0) in a canvas padded on the right and at the bottom to the next    *)
(* multiples.                                                              *)
(***************************************************************************)
C14_UnchangedIffAligned ==
    (args.entry = "tms_align" /\ pc = "returned") =>
        /\ ~tiles.embedded <=>
               /\ tiles.x = 0 /\ tiles.y = 0
               /\ args.W % args.tile_width = 0
               /\ args.H % args.tile_height = 0
        /\ ~tiles.embedded => (tiles.W = args.W /\ tiles.H = args.H)
        /\ (tiles.x = 0 /\ tiles.y = 0) =>
               /\ tiles.W = args.tile_width * Ceil(args.W, args.tile_width)
               /\ tiles.H = args.tile_height * Ceil(args.H, args.tile_height)

\* an image of two by one whole tiles at a whole offset, returned as it is
C14_Witness ==
    /\ args.entry = "tms_align"
    /\ pc = "returned"
    /\ tiles.x = 0 /\ tiles.y = 0
    /\ ~tiles.embedded
    /\ args.offset.x = args.offset.d
    /\ args.W = 2 * args.tile_width
    /\ args.H = args.tile_height
    /\ args.tile_width > 1
    /\ tiles.W = args.W

(***************************************************************************)
(* What the properties of stretch and shrink speak of.                     *)
(***************************************************************************)
\* both scales of the call are the whole number k
WholeScale(k) ==
    /\ args.xscale[1] = k * args.xscale[2]
    /\ args.yscale[1] = k * args.yscale[2]

(***************************************************************************)
(* C15.  As claimed: for every whole k >= 1, stretch(k, k) of a W x H      *)
(* image gives an image of k * W - (k - 1) by k * H - (k - 1) pixels.      *)
(***************************************************************************)
C15_Claim ==
    (args.entry = "stretch" /\ pc # "call") =>
        \A k \in 1..MaxScale :
            WholeScale(k) =>
                /\ pc = "returned"
                /\ tiles.W = k * args.W - (k - 1)
                /\ tiles.H = k * args.H - (k - 1)

(***************************************************************************)
(* C15, amended.  For every whole k >= 1, stretch(k, k) of a W x H image   *)
(* with W >= 2 and H >= 2 gives an image of k * W by k * H pixels, which   *)
(* is the size claimed for k = 1 only; in general the size is              *)
(* floor(W * xscale) by floor(H * yscale).  For W = 1 or H = 1 it raises   *)
(* ZeroDivisionError, whatever the scale >= 1.                             *)
(***************************************************************************)
C15_StretchSize ==
    (args.entry = "stretch" /\ pc # "call") =>
        /\ \A k \in 1..MaxScale :
               WholeScale(k) =>
                   IF args.W >= 2 /\ args.H >= 2
                   THEN /\ pc = "returned"
                        /\ tiles.W = k * args.W
                        /\ tiles.H = k * args.H
                        /\ (tiles.W = k * args.W - (k - 1)) <=> (k = 1)
                   ELSE /\ pc = "raised"
                        /\ err = "ZeroDivisionError"
        /\ pc = "returned" =>
               /\ tiles.W = (args.W * args.xscale[1]) \div args.xscale[2]
               /\ tiles.H = (args.H * args.yscale[1]) \div args.yscale[2]

\* stretch(2, 2) of a 3 x 2 image gives 6 x 4, not 5 x 3
C15_Witness ==
    /\ args.entry = "stretch"
    /\ pc = "returned"
    /\ WholeScale(2)
    /\ args.W = 3 /\ args.H = 2
    /\ tiles.W = 6 /\ tiles.H = 4

(***************************************************************************)
(* C16.  For native resolution n and bounds m <= n <= M (a bound left out  *)
(* counts as n), image_pyramid slices the resolutions in the order n,      *)
(* n - 1 down to m, n + 1 up to M, each once: the level being sliced is    *)
(* one of these, the directories made so far are those of the levels       *)
(* before it in this order (and its own once slice() has made it), only a  *)
(* native image that is not a whole number of tiles stops the run, and     *)
(* when image_pyramid has returned every one of m..M and no other          *)
(* resolution holds tiles.                                                 *)
(***************************************************************************)
SliceOrder ==
    <<args.resolution>>
        \o [i \in 1..(args.resolution - Lowest) |-> args.resolution - i]
        \o [i \in 1..(Highest - args.resolution) |-> args.resolution + i]

\* the place of the level being sliced in the order, 0 when it has none
SlicePosition ==
    IF \E k \in 1..Len(SliceOrder) : SliceOrder[k] = tiles.resolution
    THEN CHOOSE k \in 1..Len(SliceOrder) : SliceOrder[k] = tiles.resolution
    ELSE 0

\* the subdirectories of resolutions made so far
LevelDirsMade == {d \in dirs : Len(d) = Len(OutputDir) + 1}

C16_SliceOrder ==
    (0 <= Lowest /\ Lowest <= args.resolution
         /\ args.resolution <= Highest) =>
        /\ SlicePosition >= 1
        /\ LevelDirsMade =
               {LevelDir(SliceOrder[i]) :
                   i \in 1..(IF pc = "slice" THEN SlicePosition - 1
                             ELSE SlicePosition)}
        /\ pc = "raised" => (err = "ValueError" /\ phase = "native")
        /\ pc = "done" =>
               /\ SlicePosition = Len(SliceOrder)
               /\ {Dirname(e.path) : e \in fs} =
                      {LevelDir(r) : r \in Lowest..Highest}

\* native resolution 1, min_resolution 0, max_resolution 3: 1, 0, 2, 3
C16_Witness ==
    /\ pc = "done"
    /\ args.resolution = 1
    /\ args.min_resolution = 0
    /\ args.max_resolution = 3
    /\ SliceOrder = <<1, 0, 2, 3>>
    /\ LevelDirsMade = {LevelDir(r) : r \in 0..3}
    /\ tiles.resolution = 3

(***************************************************************************)
(* C17.  stretch raises ValueError exactly when xscale < 1.0 or            *)
(* yscale < 1.0, shrink raises ValueError exactly when xscale or yscale    *)
(* lies outside (0, 1]; when the error is raised no affine transform has   *)
(* been made; and neither raises ValueError for scales of exactly 1.0:     *)
(* shrink then returns an image of the same size, and so does stretch for  *)
(* an image of at least 2 x 2 pixels.                                      *)
(***************************************************************************)
BelowOne(scale) == scale[1] < scale[2]

InUnitInterval(scale) == scale[1] > 0 /\ scale[1] <= scale[2]

ExactlyOne(scale) == scale[1] = scale[2]

C17_InvalidScale ==
    /\ (args.entry = "stretch" /\ pc # "call") =>
           /\ (BelowOne(args.xscale) \/ BelowOne(args.yscale))
                  <=> (pc = "raised" /\ err = "ValueError")
           /\ pc = "raised" => ~tiles.affine
           /\ pc = "returned" => tiles.affine
           /\ (ExactlyOne(args.xscale) /\ ExactlyOne(args.yscale)) =>
                  /\ err # "ValueError"
                  /\ (args.W >= 2 /\ args.H >= 2) =>
                         /\ pc = "returned"
                         /\ tiles.W = args.W /\ tiles.H = args.H
    /\ (args.entry = "shrink" /\ pc # "call") =>
           /\ (~InUnitInterval(args.xscale) \/ ~InUnitInterval(args.yscale))
                  <=> (pc = "raised" /\ err = "ValueError")
           /\ pc = "raised" => ~tiles.affine
           /\ pc = "returned" => tiles.affine
           /\ (ExactlyOne(args.xscale) /\ ExactlyOne(args.yscale)) =>
                  /\ pc = "returned"
                  /\ tiles.W = args.W /\ tiles.H = args.H

\* shrink with xscale exactly 1.0 and yscale above it: ValueError, no affine
C17_Witness ==
    /\ args.entry = "shrink"
    /\ pc = "raised"
    /\ err = "ValueError"
    /\ ExactlyOne(args.xscale)
    /\ args.yscale[1] > args.yscale[2]
    /\ ~tiles.affine
    /\ args.W >= 2

(***************************************************************************)
(* C18.  As claimed: every call upsample(r) that image_pyramid makes is    *)
(* made on the TmsTiles of resolution r - 1, so that its scale is exactly  *)
(* 2, whatever min_resolution and max_resolution are, also after a         *)
(* downsampling loop.                                                      *)
(***************************************************************************)
C18_Claim ==
    [][Upsample =>
          /\ Min(UpLeft) = tiles.resolution + 1
          /\ Pow2(Min(UpLeft) - tiles.resolution) = 2]_vars

(***************************************************************************)
(* C19.  A symbolic link may exist while the encode task of its target is  *)
(* still pending, but only during the slice of its own level: at every     *)
(* moment a link resolves to a written regular file or, while its level is *)
(* being sliced, to the file of a task still in the pool; and when slice() *)
(* has returned the pool is empty and every link resolves to a regular     *)
(* file, whatever the order of dispatch and completion.                    *)
(***************************************************************************)
C19_NoDanglingAfterJoin ==
    /\ \A e \in fs :
           e.kind = "symlink" =>
               \/ IsFile(ResolveLink(e))
               \/ /\ pc \in {"loop", "join"}
                  /\ Dirname(e.path) = LevelDir(tiles.resolution)
                  /\ \E task \in pool : task.filename = ResolveLink(e)
    /\ pc \in {"returned", "done"} =>
           /\ pool = {}
           /\ \A e \in fs : e.kind = "symlink" => IsFile(ResolveLink(e))

\* a link of the level being sliced waits for its target, and a link of a
\* level sliced before has its target written
C19_Witness ==
    /\ pc \in {"loop", "join"}
    /\ \E e \in fs :
           /\ e.kind = "symlink"
           /\ Dirname(e.path) = LevelDir(tiles.resolution)
           /\ ~IsFile(ResolveLink(e))
           /\ \E task \in pool : task.filename = ResolveLink(e)
    /\ \E e \in fs :
           /\ e.kind = "symlink"
           /\ Dirname(e.path) # LevelDir(tiles.resolution)
           /\ IsFile(ResolveLink(e))

(***************************************************************************)
(* C20.  For an aligned level of w x h tiles at the whole offset (ox, oy)  *)
(* with even tile sides, downsample() to the resolution below returns a    *)
(* level at offset (floor(ox / 2), floor(oy / 2)) whose image has          *)
(* ceil((ox + w) / 2) - floor(ox / 2) tile columns and                     *)
(* ceil((oy + h) / 2) - floor(oy / 2) tile rows, with the shrunk image     *)
(* placed at left pad (ox mod 2) * tile_width / 2 and top pad              *)
(* ((oy + h) mod 2) * tile_height / 2: it lies inside the aligned image,   *)
(* its left and bottom edges where the TMS grid of the parent puts them.   *)
(***************************************************************************)
C20_DownsampleGeometry ==
    (args.entry = "downsample" /\ pc # "call"
         /\ args.resolution >= 0
         /\ args.resolution = args.self.resolution - 1) =>
        LET t == args.self
            tw == t.tile_width
            th == t.tile_height
            w == t.W \div tw
            h == t.H \div th
            ox == t.offset.x
            oy == t.offset.y
        IN  /\ pc = "returned"
            /\ tiles.resolution = t.resolution - 1
            /\ tiles.offset = [x |-> ox \div 2, y |-> oy \div 2]
            /\ tiles.W = tw * (Ceil(ox + w, 2) - ox \div 2)
            /\ tiles.H = th * (Ceil(oy + h, 2) - oy \div 2)
            /\ tiles.x = (ox % 2) * (tw \div 2)
            /\ tiles.y = ((oy + h) % 2) * (th \div 2)
            /\ tiles.x + w * (tw \div 2) <= tiles.W
            /\ tiles.y + h * (th \div 2) <= tiles.H
            /\ 2 * (tiles.offset.x * tw + tiles.x) = ox * tw
            /\ 2 * (tiles.offset.y * th
                        + (tiles.H - tiles.y - h * (th \div 2))) = oy * th

\* two by three tiles at offset (1, 2): two columns and two rows, the
\* shrunk image half a tile from the left and from the top
C20_Witness ==
    /\ args.entry = "downsample"
    /\ pc = "returned"
    /\ args.self.W = 2 * args.self.tile_width
    /\ args.self.H = 3 * args.self.tile_height
    /\ args.self.offset = [x |-> 1, y |-> 2]
    /\ args.self.tile_width = 4
    /\ tiles.W = 2 * args.self.tile_width
    /\ tiles.H = 2 * args.self.tile_height
    /\ tiles.x = 2
    /\ tiles.y = args.self.tile_height \div 2
    /\ tiles.offset = [x |-> 0, y |-> 1]

(***************************************************************************)
(* C21.  The assertion "x == y == 0" of tms_align never fails: for every   *)
(* image size, tile size and offset the call returns, and whenever the     *)
(* size it computes is the size of the input (out_w = W and out_h = H)     *)
(* the pad offsets x and y are both 0 and the input is returned as it is.  *)
(***************************************************************************)
C21_AssertionHolds ==
    (args.entry = "tms_align" /\ pc # "call") =>
        /\ pc = "returned"
        /\ err = ""
        /\ (tiles.W = args.W /\ tiles.H = args.H) =>
               (tiles.x = 0 /\ tiles.y = 0 /\ ~tiles.embedded)

\* an image of one by two whole tiles two tiles up: the sizes are equal,
\* the assertion is evaluated and holds
C21_Witness ==
    /\ args.entry = "tms_align"
    /\ pc = "returned"
    /\ tiles.W = args.W /\ tiles.H = args.H
    /\ tiles.x = 0 /\ tiles.y = 0
    /\ args.offset.y = 2 * args.offset.d
    /\ args.offset.x = 0
    /\ args.H = 2 * args.tile_height
    /\ args.tile_height = 2
    /\ args.tile_width = 3

(***************************************************************************)
(* C22.  For every native resolution n and min_resolution m with           *)
(* 0 <= m <= n, every call downsample(res) that image_pyramid makes meets  *)
(* the assertion of downsample, res >= 0 and res = resolution of the       *)
(* current TmsTiles - 1: the call raises nothing and the resolution of the *)
(* current TmsTiles goes down by exactly 1.                                *)
(***************************************************************************)
C22_DownsampleAssertion ==
    [][(Downsample /\ 0 <= args.min_resolution
            /\ args.min_resolution <= args.resolution) =>
          /\ Max(DownLeft) >= 0
          /\ Max(DownLeft) = tiles.resolution - 1
          /\ downsample(tiles, Max(DownLeft)).err = ""
          /\ pc' = "slice"
          /\ err' = ""
          /\ tiles'.resolution = tiles.resolution - 1]_vars

\* native resolution 2, min_resolution 0: downsample(1), then downsample(0)
C22_Witness ==
    /\ args.resolution = 2
    /\ args.min_resolution = 0
    /\ phase = "down"
    /\ res = 0
    /\ tiles.resolution = 0
    /\ pc = "returned"
    /\ err = ""
    /\ LevelDir(1) \in dirs

=============================================================================
